---------------------------- MODULE Spec2Model ----------------------------
(***************************************************************************)
(* MoneyMap (src/app.py): a Flask expense tracker over three SQLite tables *)
(* (users, expenses, budgets) with a cookie session.                       *)
(*                                                                         *)
(* Every route handler is one action: it consumes a request, reads and     *)
(* writes the tables and the session, and leaves the response in resp.     *)
(* The request that produced the current state is kept in req.             *)
(*                                                                         *)
(* Encoding of values.  A text is a sequence of one-character strings.  A  *)
(* JSON value of a request body and a value of a nullable column is a      *)
(* tagged record [t, v].  REAL amounts are modelled as exact integers      *)
(* (whole currency units); IEEE rounding of sums is not modelled.          *)
(***************************************************************************)
EXTENDS Integers, Sequences, FiniteSets, TLC

VARIABLES
    users,      \* rows of table users
    expenses,   \* rows of table expenses
    expSeq,     \* sqlite_sequence entry of expenses (AUTOINCREMENT)
    budgets,    \* rows of table budgets
    session,    \* the client's session: {} or {user_id}
    req,        \* the request handled last
    resp,       \* its response
    conn,       \* concurrent signup requests in flight, per client
    dblock      \* the client holding SQLite's write lock, or {} if free

vars == <<users, expenses, expSeq, budgets, session, req, resp, conn, dblock>>

-----------------------------------------------------------------------------
(* Bounds *)

MaxUsers == 2
MaxExpenses == 2

-----------------------------------------------------------------------------
(* JSON and SQL values *)

Absent == [t |-> "absent", v |-> 0]       \* key not in the body
JNull == [t |-> "null", v |-> 0]          \* JSON null / Python None / SQL NULL
JStr(s) == [t |-> "str", v |-> s]
JNum(n) == [t |-> "num", v |-> n]
NaN == [t |-> "nan", v |-> 0]             \* float('nan')

\* dict.get(key, default) on a request body
Get(data, key, default) == IF data[key].t = "absent" THEN default ELSE data[key]

\* str.strip(): drop leading and trailing blanks
RECURSIVE LStrip(_)
LStrip(s) == IF s # <<>> /\ Head(s) = " " THEN LStrip(Tail(s)) ELSE s

RECURSIVE RStrip(_)
RStrip(s) ==
    IF s # <<>> /\ s[Len(s)] = " " THEN RStrip(SubSeq(s, 1, Len(s) - 1)) ELSE s

Strip(s) == RStrip(LStrip(s))

\* Response constructors: jsonify(...), status / redirect / unhandled exception
Json(status, msg, data) == [status |-> status, msg |-> msg, data |-> data]
Redirect(to) == [status |-> 302, msg |-> to, data |-> <<>>]
Unhandled(exc) == [status |-> 500, msg |-> exc, data |-> <<>>]

-----------------------------------------------------------------------------
(* werkzeug.security *)

\* The digest is a one-way function of salt and password, taken injective.
Digest(salt, password) == <<salt, password>>

generate_password_hash(password, salt) ==
    [salt |-> salt, digest |-> Digest(salt, password)]

check_password_hash(pwhash, password) ==
    Digest(pwhash.salt, password) = pwhash.digest

-----------------------------------------------------------------------------
(* Schema: the constraints SQLite enforces on INSERT *)

\* users.id INTEGER PRIMARY KEY AUTOINCREMENT; rows are never deleted
NextUserId == Cardinality(users) + 1

\* username TEXT UNIQUE NOT NULL, email TEXT UNIQUE (NULLs are distinct,
\* empty strings are not)
UsersUniqueOk(username, email) ==
    /\ \A r \in users : r.username # username
    /\ email.t = "null" \/ \A r \in users : r.email # email

-----------------------------------------------------------------------------
(* Helpers *)

\* Mutant of login_required: the view runs whatever the session holds
login_required_Open(sess) == TRUE

\* login_required: the wrapped view runs only if "user_id" is in the session
login_required(sess) == sess # {}

\* get_current_user: the set holding the user's row, {} for None
get_current_user(sess) ==
    IF sess = {} THEN {}
    ELSE {[id |-> r.id, username |-> r.username, email |-> r.email,
           joined_date |-> r.joined_date] : r \in {x \in users : x.id \in sess}}

Init ==
    /\ users = {}
    /\ expenses = {}
    /\ expSeq = 0
    /\ budgets = {}
    /\ session = {}
    /\ req = [op |-> "none", data |-> <<>>]
    /\ resp = Json(0, "", <<>>)
    /\ conn = <<>>
    /\ dblock = {}

-----------------------------------------------------------------------------
(* AUTH API *)

SignupUsername(data) == Strip(Get(data, "username", JStr(<<>>)).v)
SignupEmail(data) == Strip(Get(data, "email", JStr(<<>>)).v)
SignupPassword(data) == Get(data, "password", JStr(<<>>)).v

UserRow(id, data, salt, joined) ==
    [id |-> id,
     username |-> SignupUsername(data),
     email |-> JStr(SignupEmail(data)),
     password_hash |-> generate_password_hash(SignupPassword(data), salt),
     joined_date |-> joined]

\* POST /api/signup
api_signup(data, salt, joined) ==
    LET username == SignupUsername(data)
        email == SignupEmail(data)
        password == SignupPassword(data)
    IN  /\ req' = [op |-> "signup", data |-> data]
        /\ UNCHANGED <<expenses, expSeq, budgets, conn, dblock>>
        /\ IF username = <<>> \/ password = <<>>
           THEN /\ resp' = Json(400, "Username and password required", <<>>)
                /\ UNCHANGED <<users, session>>
           ELSE IF \E r \in users : r.username = username
           THEN /\ resp' = Json(400, "Username already exists", <<>>)
                /\ UNCHANGED <<users, session>>
           ELSE IF email # <<>> /\ \E r \in users : r.email = JStr(email)
           THEN /\ resp' = Json(400, "Email already registered", <<>>)
                /\ UNCHANGED <<users, session>>
           ELSE IF ~UsersUniqueOk(username, JStr(email))
           THEN /\ resp' = Unhandled("IntegrityError")
                /\ UNCHANGED <<users, session>>
           ELSE /\ Cardinality(users) < MaxUsers
                /\ users' = users \cup {UserRow(NextUserId, data, salt, joined)}
                /\ session' = {NextUserId}
                /\ resp' = Json(200, "Created", <<>>)

\* POST /api/login
api_login(data) ==
    LET login_input == Strip(Get(data, "username", JStr(<<>>)).v)
        password == Get(data, "password", JStr(<<>>)).v
        rows == {r \in users :
                    r.username = login_input \/ r.email = JStr(login_input)}
        Fail == /\ resp' = Json(401, "Invalid credentials", <<>>)
                /\ UNCHANGED session
    IN  /\ req' = [op |-> "login", data |-> data]
        /\ UNCHANGED <<users, expenses, expSeq, budgets, conn, dblock>>
        /\ IF rows = {}
           THEN Fail
           ELSE \E user \in rows :   \* fetchone() of a query without ORDER BY
                   IF ~check_password_hash(user.password_hash, password)
                   THEN Fail
                   ELSE /\ session' = {user.id}
                        /\ resp' = Json(200, "Success", <<>>)

\* POST /api/logout
api_logout ==
    /\ req' = [op |-> "logout", data |-> <<>>]
    /\ session' = {}
    /\ resp' = Json(200, "Logged out", <<>>)
    /\ UNCHANGED <<users, expenses, expSeq, budgets, conn, dblock>>

-----------------------------------------------------------------------------
(* Python and SQLite conversions used by the ledger *)

DigitVal(c) ==
    CASE c = "0" -> 0 [] c = "1" -> 1 [] c = "2" -> 2 [] c = "3" -> 3
      [] c = "4" -> 4 [] c = "5" -> 5 [] c = "6" -> 6 [] c = "7" -> 7
      [] c = "8" -> 8 [] c = "9" -> 9 [] OTHER -> -1

IsDigits(s) == s # <<>> /\ \A i \in 1..Len(s) : DigitVal(s[i]) >= 0

RECURSIVE DigitsVal(_)
DigitsVal(s) ==
    IF s = <<>> THEN 0
    ELSE 10 * DigitsVal(SubSeq(s, 1, Len(s) - 1)) + DigitVal(s[Len(s)])

\* A text read as a number: blanks around it are ignored, an optional sign,
\* then digits, or "nan".  The result is a number, NaN, or JNull when the
\* text is no number.
StrToNum(s) ==
    LET c == Strip(s) IN
    IF c = <<"n", "a", "n">> THEN NaN
    ELSE IF IsDigits(c) THEN JNum(DigitsVal(c))
    ELSE IF c # <<>> /\ Head(c) = "-" /\ IsDigits(Tail(c))
         THEN JNum(0 - DigitsVal(Tail(c)))
    ELSE IF c # <<>> /\ Head(c) = "+" /\ IsDigits(Tail(c))
         THEN JNum(DigitsVal(Tail(c)))
    ELSE JNull

\* float(x): [exc, val]; exc is the exception raised, "" if none
PyFloat(x) ==
    IF x.t = "num" THEN [exc |-> "", val |-> x]
    ELSE IF x.t = "nan" THEN [exc |-> "", val |-> NaN]
    ELSE IF x.t = "str"
         THEN IF StrToNum(x.v).t = "null"
              THEN [exc |-> "ValueError", val |-> JNull]
              ELSE [exc |-> "", val |-> StrToNum(x.v)]
    ELSE [exc |-> "TypeError", val |-> JNull]

\* x.strip() for a body value: AttributeError unless x is a str
PyStrip(x) ==
    IF x.t = "str" THEN [exc |-> "", val |-> Strip(x.v)]
    ELSE [exc |-> "AttributeError", val |-> <<>>]

\* A float bound to a REAL column: sqlite3 stores NaN as NULL
SqlReal(f) == IF f.t = "nan" THEN JNull ELSE f

\* id = ? with a text parameter from the URL: the INTEGER column's affinity
\* converts a text that looks like an integer
SqlIdEq(id, eid) == StrToNum(eid) = JNum(id)

\* Binary collation of two texts over the characters the model uses
Ord(c) ==
    CASE c = " " -> 32 [] c = "+" -> 43 [] c = "-" -> 45
      [] DigitVal(c) >= 0 -> 48 + DigitVal(c)
      [] c = "a" -> 97 [] c = "b" -> 98 [] c = "f" -> 102 [] c = "n" -> 110
      [] c = "o" -> 111 [] c = "t" -> 116 [] c = "x" -> 120
      [] OTHER -> 127

RECURSIVE TextLess(_, _)
TextLess(a, b) ==
    IF b = <<>> THEN FALSE
    ELSE IF a = <<>> THEN TRUE
    ELSE IF Head(a) # Head(b) THEN Ord(Head(a)) < Ord(Head(b))
    ELSE TextLess(Tail(a), Tail(b))

\* Order of a nullable TEXT column: NULL sorts before every text
SqlTextLess(a, b) ==
    IF b.t = "null" THEN FALSE
    ELSE IF a.t = "null" THEN TRUE
    ELSE TextLess(a.v, b.v)

\* strftime('%Y-%m', date) on a TEXT date: "YYYY-MM-DD" with month 01..12
\* and day 01..31 gives "YYYY-MM"; NULL and any other text of the model give
\* NULL
Strftime_Ym(date) ==
    IF date.t # "str" THEN JNull
    ELSE LET d == date.v IN
         IF /\ Len(d) = 10
            /\ d[5] = "-" /\ d[8] = "-"
            /\ IsDigits(SubSeq(d, 1, 4))
            /\ IsDigits(SubSeq(d, 6, 7))
            /\ IsDigits(SubSeq(d, 9, 10))
            /\ DigitsVal(SubSeq(d, 6, 7)) \in 1..12
            /\ DigitsVal(SubSeq(d, 9, 10)) \in 1..31
         THEN JStr(SubSeq(d, 1, 7))
         ELSE JNull

\* SUM(amount) over rows: NULL amounts are skipped, NULL if none is left
RECURSIVE SumNum(_)
SumNum(rows) ==
    IF rows = {} THEN 0
    ELSE LET r == CHOOSE x \in rows : TRUE
         IN  r.amount.v + SumNum(rows \ {r})

SqlSum(rows) ==
    LET nn == {r \in rows : r.amount.t = "num"}
    IN  IF nn = {} THEN JNull ELSE JNum(SumNum(nn))

\* All orders of a finite set
Perms(S) ==
    {p \in [1..Cardinality(S) -> S] : \A i, j \in DOMAIN p : i # j => p[i] # p[j]}

-----------------------------------------------------------------------------
(* PAGES *)

\* GET /dashboard, /expenses, /analytics, /budget, /profile
page(path) ==
    /\ req' = [op |-> "page", data |-> path]
    /\ UNCHANGED <<users, expenses, expSeq, budgets, session, conn, dblock>>
    /\ IF ~login_required(session)
       THEN resp' = Redirect("/login")
       ELSE resp' = Json(200, "render_template", get_current_user(session))

-----------------------------------------------------------------------------
(* EXPENSES API *)

\* SELECT id, title, amount, category, date
ExpenseRecord(r) ==
    [id |-> r.id, title |-> r.title, amount |-> r.amount,
     category |-> r.category, date |-> r.date]

\* Mutant of SelectExpenses: the WHERE user_id=? is missing
SelectExpenses_AllUsers(uid) ==
    LET mine == {ExpenseRecord(r) : r \in expenses}
    IN  {p \in Perms(mine) :
            \A i, j \in DOMAIN p : i < j => ~SqlTextLess(p[i].date, p[j].date)}

\* ... FROM expenses WHERE user_id=? ORDER BY date DESC: every order of the
\* user's rows that the ORDER BY allows
SelectExpenses(uid) ==
    LET mine == {ExpenseRecord(r) : r \in {x \in expenses : x.user_id = uid}}
    IN  {p \in Perms(mine) :
            \A i, j \in DOMAIN p : i < j => ~SqlTextLess(p[i].date, p[j].date)}

\* GET /api/expenses
api_expenses_GET ==
    /\ req' = [op |-> "expenses.list", data |-> <<>>]
    /\ UNCHANGED <<users, expenses, expSeq, budgets, session, conn, dblock>>
    /\ IF ~login_required(session)
       THEN resp' = Redirect("/login")
       ELSE LET user == get_current_user(session) IN
            IF user = {}
            THEN resp' = Unhandled("TypeError")
            ELSE \E u \in user : \E rows \in SelectExpenses(u.id) :
                    resp' = Json(200, "", rows)

\* POST /api/expenses
api_expenses_POST(data) ==
    /\ req' = [op |-> "expenses.add", data |-> data]
    /\ UNCHANGED <<users, budgets, session, conn, dblock>>
    /\ IF ~login_required(session)
       THEN /\ resp' = Redirect("/login")
            /\ UNCHANGED <<expenses, expSeq>>
       ELSE LET user == get_current_user(session)
                amount == PyFloat(Get(data, "amount", JNum(0)))
                title == PyStrip(Get(data, "title", JNull))
                category == PyStrip(Get(data, "category", JNull))
                date == Get(data, "date", JNull)
            IN
            IF amount.exc = "ValueError"
            THEN /\ resp' = Json(400, "Invalid amount", <<>>)
                 /\ UNCHANGED <<expenses, expSeq>>
            ELSE IF amount.exc # ""
            THEN /\ resp' = Unhandled(amount.exc)
                 /\ UNCHANGED <<expenses, expSeq>>
            ELSE IF amount.val.t = "num" /\ amount.val.v <= 0
            THEN /\ resp' = Json(400, "Amount must be positive", <<>>)
                 /\ UNCHANGED <<expenses, expSeq>>
            ELSE IF user = {}
            THEN /\ resp' = Unhandled("TypeError")
                 /\ UNCHANGED <<expenses, expSeq>>
            ELSE IF title.exc # ""
            THEN /\ resp' = Unhandled(title.exc)
                 /\ UNCHANGED <<expenses, expSeq>>
            ELSE IF category.exc # ""
            THEN /\ resp' = Unhandled(category.exc)
                 /\ UNCHANGED <<expenses, expSeq>>
            ELSE /\ expSeq < MaxExpenses
                 /\ \E u \in user :
                       expenses' = expenses \cup
                           {[id |-> expSeq + 1, user_id |-> u.id,
                             title |-> title.val, amount |-> SqlReal(amount.val),
                             category |-> category.val, date |-> date]}
                 /\ expSeq' = expSeq + 1
                 /\ resp' = Json(200, "Saved", <<>>)

\* Mutant of DeleteWhere: the AND user_id=? is missing
DeleteWhere_AnyOwner(r, eid, uid) == SqlIdEq(r.id, eid)

\* DELETE FROM expenses WHERE id=? AND user_id=?
DeleteWhere(r, eid, uid) == SqlIdEq(r.id, eid) /\ r.user_id = uid

\* DELETE /api/expenses/<eid>
api_del_exp(eid) ==
    /\ req' = [op |-> "expenses.delete", data |-> eid]
    /\ UNCHANGED <<users, expSeq, budgets, session, conn, dblock>>
    /\ IF ~login_required(session)
       THEN /\ resp' = Redirect("/login")
            /\ UNCHANGED expenses
       ELSE LET user == get_current_user(session) IN
            IF user = {}
            THEN /\ resp' = Unhandled("TypeError")
                 /\ UNCHANGED expenses
            ELSE /\ \E u \in user :
                       expenses' = {r \in expenses : ~DeleteWhere(r, eid, u.id)}
                 /\ resp' = Json(200, "Deleted", <<>>)

-----------------------------------------------------------------------------
(* BUDGET API *)

\* SELECT amount FROM budgets WHERE user_id=?, fetchone: amount or 0.0
SelectBudget(uid) ==
    LET r == {b \in budgets : b.user_id = uid}
    IN  IF r = {} THEN {JNum(0)} ELSE {b.amount : b \in r}

\* INSERT OR REPLACE INTO budgets: user_id is the PRIMARY KEY, the row in
\* conflict is deleted first
UpsertBudget(uid, amount) ==
    {b \in budgets : b.user_id # uid} \cup {[user_id |-> uid, amount |-> amount]}

\* GET /api/budget
api_budget_GET ==
    /\ req' = [op |-> "budget.get", data |-> <<>>]
    /\ UNCHANGED <<users, expenses, expSeq, budgets, session, conn, dblock>>
    /\ IF ~login_required(session)
       THEN resp' = Redirect("/login")
       ELSE LET user == get_current_user(session) IN
            IF user = {}
            THEN resp' = Unhandled("TypeError")
            ELSE \E u \in user : \E a \in SelectBudget(u.id) :
                    resp' = Json(200, "", a)

\* PUT /api/budget
api_budget_PUT(data) ==
    /\ req' = [op |-> "budget.set", data |-> data]
    /\ UNCHANGED <<users, expenses, expSeq, session, conn, dblock>>
    /\ IF ~login_required(session)
       THEN /\ resp' = Redirect("/login")
            /\ UNCHANGED budgets
       ELSE LET user == get_current_user(session)
                val == PyFloat(Get(data, "amount", JNum(0)))
            IN
            IF val.exc = "ValueError"
            THEN /\ resp' = Json(400, "Invalid budget amount", <<>>)
                 /\ UNCHANGED budgets
            ELSE IF val.exc # ""
            THEN /\ resp' = Unhandled(val.exc)
                 /\ UNCHANGED budgets
            ELSE IF val.val.t = "num" /\ val.val.v < 0
            THEN /\ resp' = Json(400, "Budget cannot be negative", <<>>)
                 /\ UNCHANGED budgets
            ELSE IF user = {}
            THEN /\ resp' = Unhandled("TypeError")
                 /\ UNCHANGED budgets
            ELSE /\ \E u \in user :
                       budgets' = UpsertBudget(u.id, SqlReal(val.val))
                 /\ resp' = Json(200, "Updated", <<>>)

-----------------------------------------------------------------------------
(* ANALYTICS API *)

\* The one sequence that lists a set of texts in ascending order (sorted())
SortedTexts(S) ==
    CHOOSE p \in Perms(S) : \A i, j \in DOMAIN p : i < j => TextLess(p[i].v, p[j].v)

\* GET /api/analytics
api_analytics ==
    /\ req' = [op |-> "analytics", data |-> <<>>]
    /\ UNCHANGED <<users, expenses, expSeq, budgets, session, conn, dblock>>
    /\ IF ~login_required(session)
       THEN resp' = Redirect("/login")
       ELSE LET user == get_current_user(session) IN
            IF user = {}
            THEN resp' = Unhandled("TypeError")
            ELSE \E u \in user :
                 LET mine == {r \in expenses : r.user_id = u.id}
                     \* GROUP BY category
                     cats == {JStr(r.category) : r \in mine}
                     cat_tot == [c \in cats |->
                                   SqlSum({r \in mine : JStr(r.category) = c})]
                     \* GROUP BY strftime('%Y-%m', date)
                     ms == {Strftime_Ym(r.date) : r \in mine}
                     monthly == [m \in ms |->
                                   SqlSum({r \in mine : Strftime_Ym(r.date) = m})]
                     \* SUM(amount) or 0.0
                     total == IF SqlSum(mine).t = "null" THEN JNum(0)
                              ELSE SqlSum(mine)
                 IN
                 \* sorted() compares the keys: None against a str raises
                 IF JNull \in ms /\ ms # {JNull}
                 THEN resp' = Unhandled("TypeError")
                 ELSE \E categories \in Perms(cats) : \E budget \in SelectBudget(u.id) :
                      LET sorted_months == IF ms = {JNull} THEN <<JNull>>
                                           ELSE SortedTexts(ms)
                      IN resp' = Json(200, "",
                          [categories |-> categories,
                           category_amounts |->
                               [i \in DOMAIN categories |-> cat_tot[categories[i]]],
                           months |-> sorted_months,
                           monthly_amounts |->
                               [i \in DOMAIN sorted_months |-> monthly[sorted_months[i]]],
                           total_spent |-> total,
                           budget |-> budget])

-----------------------------------------------------------------------------
(* Concurrent signups: api_signup statement by statement, one connection   *)
(* per request.  A SELECT reads the committed rows; the INSERT opens the   *)
(* implicit transaction and takes SQLite's write lock; commit() publishes  *)
(* the row and frees the lock.                                             *)

Clients == {"c1", "c2"}

Done(c, response, sess) ==
    conn' = [conn EXCEPT ![c].pc = "done", ![c].resp = response,
                         ![c].session = sess]

\* lines 145-161: validation and the username SELECT
signup_check_username(c) ==
    LET data == conn[c].data IN
    /\ conn[c].pc = "start"
    /\ UNCHANGED <<users, expenses, expSeq, budgets, session, req, resp, dblock>>
    /\ IF SignupUsername(data) = <<>> \/ SignupPassword(data) = <<>>
       THEN Done(c, Json(400, "Username and password required", <<>>), {})
       ELSE IF \E r \in users : r.username = SignupUsername(data)
       THEN Done(c, Json(400, "Username already exists", <<>>), {})
       ELSE conn' = [conn EXCEPT ![c].pc = "email"]

\* lines 163-168: the email SELECT
signup_check_email(c) ==
    LET data == conn[c].data IN
    /\ conn[c].pc = "email"
    /\ UNCHANGED <<users, expenses, expSeq, budgets, session, req, resp, dblock>>
    /\ IF SignupEmail(data) # <<>>
          /\ \E r \in users : r.email = JStr(SignupEmail(data))
       THEN Done(c, Json(400, "Email already registered", <<>>), {})
       ELSE conn' = [conn EXCEPT ![c].pc = "insert"]

\* lines 171-176: the INSERT, with the write lock free
signup_insert(c, salt, joined) ==
    LET data == conn[c].data IN
    /\ conn[c].pc = "insert"
    /\ dblock = {}
    /\ UNCHANGED <<users, expenses, expSeq, budgets, session, req, resp>>
    /\ IF ~UsersUniqueOk(SignupUsername(data), JStr(SignupEmail(data)))
       THEN /\ Done(c, Unhandled("IntegrityError"), {})
            /\ UNCHANGED dblock
       ELSE /\ conn' = [conn EXCEPT ![c].pc = "commit",
                           ![c].row = {UserRow(NextUserId, data, salt, joined)}]
            /\ dblock' = {c}

\* lines 173-176: the INSERT while another connection holds the write lock
\* until the busy timeout expires
signup_insert_busy(c) ==
    /\ conn[c].pc = "insert"
    /\ dblock # {} /\ c \notin dblock
    /\ UNCHANGED <<users, expenses, expSeq, budgets, session, req, resp, dblock>>
    /\ Done(c, Unhandled("OperationalError"), {})

\* lines 177-182: commit, session["user_id"] = cur.lastrowid
signup_commit(c) ==
    /\ conn[c].pc = "commit"
    /\ users' = users \cup conn[c].row
    /\ dblock' = {}
    /\ Done(c, Json(200, "Created", <<>>), {r.id : r \in conn[c].row})
    /\ UNCHANGED <<expenses, expSeq, budgets, session, req, resp>>

-----------------------------------------------------------------------------
(* Inputs *)

Today == JStr(<<"2", "0", "2", "4", "-", "0", "3", "-", "0", "1">>)
Jan05 == JStr(<<"2", "0", "2", "4", "-", "0", "1", "-", "0", "5">>)
Feb01 == JStr(<<"2", "0", "2", "4", "-", "0", "2", "-", "0", "1">>)
BadMonth == JStr(<<"2", "0", "2", "4", "-", "1", "3", "-", "0", "1">>)

SignupData(u, e, p) == [username |-> u, email |-> e, password |-> p]
LoginData(u, p) == [username |-> u, password |-> p]
ExpenseData(t, a, c, d) == [title |-> t, amount |-> a, category |-> c, date |-> d]
BudgetData(a) == [amount |-> a]

Pages == {"/dashboard", "/expenses", "/analytics", "/budget", "/profile"}

\* Two accounts with distinct usernames and emails
TwoSignups ==
    {SignupData(JStr(<<"a">>), JStr(<<"x">>), JStr(<<"p">>)),
     SignupData(JStr(<<"b">>), JStr(<<"o">>), JStr(<<"p">>))}
TwoLogins ==
    {LoginData(JStr(<<"a">>), JStr(<<"p">>)), LoginData(JStr(<<"b">>), JStr(<<"p">>))}

AuthUsernames == {Absent, JStr(<<"a">>), JStr(<<" ", "a">>), JStr(<<"b">>)}
AuthEmails == {Absent, JStr(<<" ">>), JStr(<<"a">>), JStr(<<"x">>)}
AuthPasswords == {Absent, JStr(<<"p">>), JStr(<<"q">>)}
AuthLoginNames == AuthUsernames \cup {JStr(<<"x">>)}
Salts == {1, 2}

-----------------------------------------------------------------------------
(* Specifications *)

\* Accounts and sessions
NextAuth ==
    \/ \E u \in AuthUsernames, e \in AuthEmails, p \in AuthPasswords, s \in Salts :
          api_signup(SignupData(u, e, p), s, Today)
    \/ \E u \in AuthLoginNames, p \in AuthPasswords : api_login(LoginData(u, p))
    \/ api_logout

SpecAuth == Init /\ [][NextAuth]_vars

\* Every route, with a few requests each
SmallExpenses ==
    {ExpenseData(JStr(<<"t">>), JNum(1), JStr(<<"f">>), Jan05),
     ExpenseData(JStr(<<"t">>), JNum(0), JStr(<<"f">>), Jan05)}
SmallEids == {<<"1">>, <<"2">>}
SmallBudgets == {BudgetData(JNum(1)), BudgetData(JNum(-1))}

Next ==
    \/ \E d \in TwoSignups : api_signup(d, 1, Today)
    \/ \E d \in TwoLogins : api_login(d)
    \/ api_logout
    \/ \E path \in Pages : page(path)
    \/ api_expenses_GET
    \/ \E d \in SmallExpenses : api_expenses_POST(d)
    \/ \E eid \in SmallEids : api_del_exp(eid)
    \/ api_budget_GET
    \/ \E d \in SmallBudgets : api_budget_PUT(d)
    \/ api_analytics

Spec == Init /\ [][Next]_vars

-----------------------------------------------------------------------------
(* Claims on accounts and sessions *)

\* The password a stored hash was generated from (Digest is injective)
PasswordOf(r) == r.password_hash.digest[2]

LoginName(data) == Strip(Get(data, "username", JStr(<<>>)).v)
LoginPassword(data) == Get(data, "password", JStr(<<>>)).v

C3_SignupWithoutEmail ==
    [][(/\ req'.op = "signup"
        /\ SignupUsername(req'.data) # <<>>
        /\ SignupPassword(req'.data) # <<>>
        /\ SignupEmail(req'.data) = <<>>
        /\ \A r \in users : r.username # SignupUsername(req'.data))
       => /\ resp'.status = 200
          /\ session' = {NextUserId}
          /\ \E r \in users' \ users :
                r.id = NextUserId /\ r.username = SignupUsername(req'.data)]_vars

-----------------------------------------------------------------------------
(* Claims on the guard *)

ApiOps == {"expenses.list", "expenses.add", "expenses.delete",
           "budget.get", "budget.set", "analytics"}
ProtectedOps == ApiOps \cup {"page"}

\* The guard's own answer: redirect("/login")
ToLogin(r) == r.status = 302 /\ r.msg = "/login"

\* C4: without a user id in the session every protected route is answered by
\* the guard alone and the three tables stay as they are; a protected route
\* answered by its handler had the session bound to the id of an existing
\* user.
C4_GuardBeforeLogic ==
    [][req'.op \in ProtectedOps =>
         /\ session = {} =>
               /\ ToLogin(resp')
               /\ UNCHANGED <<users, expenses, expSeq, budgets>>
         /\ ~ToLogin(resp') =>
               \E r \in users : session = {r.id}]_vars

\* C4 witness: after a logout, with users and expenses stored, a protected
\* write was turned away
C4_Witness ==
    /\ session = {}
    /\ req.op = "expenses.add"
    /\ ToLogin(resp)
    /\ expenses # {}
    /\ Cardinality(users) = 2

\* C5: without a session a protected API route answers 401 and a page route
\* redirects to the login page.
C5_ApiUnauthorized ==
    [][session = {} =>
         /\ req'.op \in ApiOps => resp'.status = 401
         /\ req'.op = "page" => ToLogin(resp')]_vars

-----------------------------------------------------------------------------
(* Two signup requests in flight at once *)

ConcUsernames == {JStr(<<"a">>), JStr(<<" ", "a">>), JStr(<<"b">>)}
ConcEmails == {Absent, JStr(<<"x">>), JStr(<<"o">>)}
ConcPasswords == {Absent, JStr(<<"p">>)}

InitConc ==
    /\ users = {}
    /\ expenses = {}
    /\ expSeq = 0
    /\ budgets = {}
    /\ session = {}
    /\ req = [op |-> "none", data |-> <<>>]
    /\ resp = Json(0, "", <<>>)
    /\ dblock = {}
    /\ \E d \in [Clients -> {SignupData(u, e, p) :
                    u \in ConcUsernames, e \in ConcEmails, p \in ConcPasswords}] :
          conn = [c \in Clients |->
                    [pc |-> "start", data |-> d[c], row |-> {},
                     resp |-> Json(0, "", <<>>), session |-> {}]]

NextConc ==
    \E c \in Clients :
        \/ signup_check_username(c)
        \/ signup_check_email(c)
        \/ \E s \in Salts : signup_insert(c, s, Today)
        \/ signup_insert_busy(c)
        \/ signup_commit(c)

SpecConc == InitConc /\ [][NextConc]_vars

\* C2: two signups with the same stripped username and non-empty passwords
\* end, under every interleaving of their statements, with one "Created" and
\* one 400 "Username already exists", and one row with that username.
C2_OneSignupWins ==
    \A c, d \in Clients :
       (/\ c # d
        /\ conn[c].pc = "done" /\ conn[d].pc = "done"
        /\ SignupUsername(conn[c].data) = SignupUsername(conn[d].data)
        /\ SignupPassword(conn[c].data) # <<>>
        /\ SignupPassword(conn[d].data) # <<>>)
       => /\ \E w \in {c, d} : \A l \in {c, d} \ {w} :
                /\ conn[w].resp.status = 200
                /\ conn[l].resp.status = 400
                /\ conn[l].resp.msg = "Username already exists"
          /\ Cardinality({r \in users :
                             r.username = SignupUsername(conn[c].data)}) = 1

-----------------------------------------------------------------------------
(* The budget store *)

BudgetAmounts ==
    {Absent, JNull, JNum(-1), JNum(0), JNum(1), JNum(2),
     JStr(<<"x">>), JStr(<<" ", "2">>), JStr(<<"n", "a", "n">>)}

NextBudget ==
    \/ \E d \in TwoSignups : api_signup(d, 1, Today)
    \/ \E d \in TwoLogins : api_login(d)
    \/ api_logout
    \/ api_budget_GET
    \/ \E a \in BudgetAmounts : api_budget_PUT(BudgetData(a))

SpecBudget == Init /\ [][NextBudget]_vars

\* C6: a successful budget.set leaves one budgets row for the user, holding
\* the amount just set, and every other user's row as it was; no other
\* request changes a row; budget.get answers the amount of the user's row, or
\* zero if the user never set one; setting the same amount again changes
\* nothing.
C6_BudgetUpsert ==
    [][/\ (req'.op = "budget.set" /\ resp'.status = 200) =>
            \E u \in session :
               LET mine == {b \in budgets' : b.user_id = u}
                   amount == PyFloat(Get(req'.data, "amount", JNum(0))).val
               IN  /\ Cardinality(mine) = 1
                   /\ \A b \in mine : b.amount = amount
                   /\ {b \in budgets' : b.user_id # u}
                         = {b \in budgets : b.user_id # u}
       /\ (req'.op # "budget.set" \/ resp'.status # 200) => budgets' = budgets
       /\ (req'.op = "budget.get" /\ resp'.status = 200) =>
            \E u \in session :
               LET mine == {b \in budgets : b.user_id = u}
               IN  /\ Cardinality(mine) <= 1
                   /\ mine = {} => resp'.data = JNum(0)
                   /\ \A b \in mine : resp'.data = b.amount
       /\ (req'.op = "budget.set" /\ req' = req /\ resp'.status = 200
           /\ resp.status = 200 /\ session' = session) => budgets' = budgets]_vars

-----------------------------------------------------------------------------
(* The expense ledger *)

LedgerTitles == {JStr(<<"t">>), JStr(<<" ", "t">>)}
LedgerAmounts == {JNum(0), JNum(1), JStr(<<" ", "1">>), JStr(<<"n", "a", "n">>)}
LedgerCategories == {JStr(<<"f">>), JStr(<<"f", " ">>)}
LedgerDates == {Absent, Jan05}
LedgerEids == {<<"1">>, <<"2">>, <<"3">>, <<"x">>}

NextLedger ==
    \/ \E d \in TwoSignups : api_signup(d, 1, Today)
    \/ \E d \in TwoLogins : api_login(d)
    \/ api_logout
    \/ api_expenses_GET
    \/ \E t \in LedgerTitles, a \in LedgerAmounts, c \in LedgerCategories,
          d \in LedgerDates : api_expenses_POST(ExpenseData(t, a, c, d))
    \/ \E eid \in LedgerEids : api_del_exp(eid)

SpecLedger == Init /\ [][NextLedger]_vars

\* A listing holds the record of expense id with these field values
Lists(rows, id, title, amount, category, date) ==
    \E i \in DOMAIN rows :
       rows[i] = [id |-> id, title |-> title, amount |-> amount,
                  category |-> category, date |-> date]

AddOk == req'.op = "expenses.add" /\ resp'.status = 200
DeleteOk == req'.op = "expenses.delete" /\ resp'.status = 200

\* What expenses.list returns after a step, and only the user's own rows
OnlyOwn(u, rows) ==
    \A i \in DOMAIN rows :
       \E r \in expenses' : r.id = rows[i].id /\ r.user_id = u

\* The answer of expenses.list holds every expense of the session's user and
\* no other
ListAnswer ==
    (req'.op = "expenses.list" /\ resp'.status = 200) =>
       \E u \in session :
          /\ OnlyOwn(u, resp'.data)
          /\ \A r \in expenses :
                r.user_id = u =>
                   \E i \in DOMAIN resp'.data : resp'.data[i] = ExpenseRecord(r)

\* After the user deleted expense eid of theirs, a list no longer holds it
\* and holds every other expense the user had
DeleteThenList(u) ==
    \A r \in expenses :
       r.user_id = u =>
          \A rows \in (SelectExpenses(u))' :
             IF StrToNum(req'.data) = JNum(r.id)
             THEN \A i \in DOMAIN rows : rows[i].id # r.id
             ELSE \E i \in DOMAIN rows : rows[i] = ExpenseRecord(r)

\* C7 as stated: after a successful add, a list holds a record with exactly
\* the title, amount, category and date of the request, and only expenses of
\* the user; after the user deletes it, a list holds every other expense of
\* the user and not this one.
C7_AddListDelete_Exact ==
    [][/\ AddOk =>
            \E u \in session : \A rows \in (SelectExpenses(u))' :
               /\ Lists(rows, expSeq', req'.data.title.v, req'.data.amount,
                        req'.data.category.v, Get(req'.data, "date", JNull))
               /\ OnlyOwn(u, rows)
       /\ ListAnswer
       /\ DeleteOk => \E u \in session : DeleteThenList(u)]_vars

\* C7 amended: the record holds the title and the category with the blanks
\* around them stripped, the amount as the number float() reads from the
\* request (null when that is NaN), and the date of the request (null when
\* absent).
C7_AddListDelete ==
    [][/\ AddOk =>
            \E u \in session : \A rows \in (SelectExpenses(u))' :
               /\ Lists(rows, expSeq',
                        Strip(req'.data.title.v),
                        LET n == IF req'.data.amount.t = "str"
                                 THEN StrToNum(req'.data.amount.v)
                                 ELSE req'.data.amount
                        IN  IF n.t = "nan" THEN JNull ELSE n,
                        Strip(req'.data.category.v),
                        Get(req'.data, "date", JNull))
               /\ OnlyOwn(u, rows)
       /\ ListAnswer
       /\ DeleteOk => \E u \in session : DeleteThenList(u)]_vars

\* C7 witness: a user who added two expenses deleted one of them and still
\* has the other
C7_Witness ==
    /\ req.op = "expenses.delete" /\ resp.status = 200
    /\ expSeq = 2
    /\ StrToNum(req.data) \in {JNum(1), JNum(2)}
    /\ \E u \in session :
          /\ Cardinality(expenses) = 1
          /\ \A r \in expenses : r.user_id = u /\ StrToNum(req.data) # JNum(r.id)
          /\ \A rows \in SelectExpenses(u) : Len(rows) = 1

\* C8: a delete of an id that does not exist or is another user's answers
\* 200 and leaves users, expenses and budgets as they are; no step removes or
\* alters an expense of a user other than the one the session is bound to.
C8_ForeignDeleteNoOp ==
    [][/\ (req'.op = "expenses.delete" /\ session # {}) =>
            /\ resp'.status = 200
            /\ (\A r \in expenses :
                   StrToNum(req'.data) = JNum(r.id) => r.user_id \notin session)
               => UNCHANGED <<users, expenses, budgets>>
       /\ \A r \in expenses : r.user_id \notin session => r \in expenses']_vars

\* C8 witness: the session's user asked to delete an expense of another
\* user, which is still stored
C8_Witness ==
    /\ req.op = "expenses.delete" /\ resp.status = 200
    /\ session # {}
    /\ \E r \in expenses :
          StrToNum(req.data) = JNum(r.id) /\ r.user_id \notin session

-----------------------------------------------------------------------------
(* Validation of amounts *)

BadAmounts ==
    {Absent, JNull, JNum(0), JNum(-1), JStr(<<"x">>), JStr(<<"n", "a", "n">>)}
GoodAmounts == {JNum(1), JStr(<<" ", "2">>)}

NextValidation ==
    \/ \E d \in TwoSignups : api_signup(d, 1, Today)
    \/ \E d \in TwoLogins : api_login(d)
    \/ api_logout
    \/ \E t \in {Absent, JStr(<<"t">>)}, a \in BadAmounts \cup GoodAmounts :
          api_expenses_POST(ExpenseData(t, a, JStr(<<"f">>), Jan05))
    \/ \E a \in {JNum(-1), JNum(1), JStr(<<"n", "a", "n">>)} :
          api_budget_PUT(BudgetData(a))

SpecValidation == Init /\ [][NextValidation]_vars

\* An amount that is missing, null, no number, zero or negative
BadAmount(a) ==
    \/ a.t \in {"absent", "null"}
    \/ a.t = "num" /\ a.v <= 0
    \/ a.t = "str" /\ (StrToNum(a.v).t # "num" \/ StrToNum(a.v).v <= 0)

\* C10: an add with a bad amount answers 400 and stores nothing; an add that
\* does not succeed leaves the expenses as they are; every stored expense
\* has a positive amount and every stored budget a non-negative one.
C10_AmountValidated ==
    [][/\ (req'.op = "expenses.add" /\ session # {}
           /\ BadAmount(req'.data.amount)) =>
            resp'.status = 400 /\ expenses' = expenses
       /\ (req'.op = "expenses.add" /\ resp'.status # 200) => expenses' = expenses
       /\ \A r \in expenses' : r.amount.t = "num" /\ r.amount.v > 0
       /\ \A b \in budgets' : b.amount.t = "num" /\ b.amount.v >= 0]_vars

-----------------------------------------------------------------------------
(* Analytics *)

AnalyticsAmounts == {JNum(1), JNum(2)}
AnalyticsCategories == {JStr(<<"f">>), JStr(<<"t">>)}
AnalyticsDates == {Absent, Jan05, Feb01, BadMonth}

NextAnalytics ==
    \/ \E d \in TwoSignups : api_signup(d, 1, Today)
    \/ \E d \in TwoLogins : api_login(d)
    \/ api_logout
    \/ \E a \in AnalyticsAmounts, c \in AnalyticsCategories, d \in AnalyticsDates :
          api_expenses_POST(ExpenseData(JStr(<<"t">>), a, c, d))
    \/ api_del_exp(<<"1">>)
    \/ api_budget_PUT(BudgetData(JNum(2)))
    \/ api_analytics

SpecAnalytics == Init /\ [][NextAnalytics]_vars

\* The reference aggregation
RECURSIVE RefSum(_)
RefSum(rows) ==
    IF rows = {} THEN 0
    ELSE LET r == CHOOSE x \in rows : TRUE IN r.amount.v + RefSum(rows \ {r})

RECURSIVE SeqSum(_)
SeqSum(q) == IF q = <<>> THEN 0 ELSE Head(q).v + SeqSum(Tail(q))

\* The rows whose date starts with the "YYYY-MM" text m
InMonth(rows, m) ==
    {r \in rows : /\ r.date.t = "str"
                  /\ Len(r.date.v) >= 7
                  /\ SubSeq(r.date.v, 1, 7) = m}

\* The "YYYY-MM" prefixes of the dates of rows
MonthPrefixes(rows) ==
    {SubSeq(r.date.v, 1, 7) :
        r \in {x \in rows : x.date.t = "str" /\ Len(x.date.v) >= 7}}

\* C9: analytics of a logged-in user succeeds and equals the reference
\* aggregation over that user's expenses: one entry per category with its
\* sum, one entry per "YYYY-MM" prefix of the dates in ascending order with
\* its sum, the total of all amounts, the stored budget or zero; the sums of
\* the two amount lists equal the total, and nothing stored changes.
C9_AnalyticsReference ==
    [][(req'.op = "analytics" /\ session # {}) =>
         /\ resp'.status = 200
         /\ UNCHANGED <<users, expenses, expSeq, budgets>>
         /\ \E u \in session :
            LET mine == {r \in expenses : r.user_id = u}
                out == resp'.data
            IN  /\ Len(out.categories) = Cardinality({r.category : r \in mine})
                /\ {out.categories[i] : i \in DOMAIN out.categories}
                      = {JStr(r.category) : r \in mine}
                /\ \A i \in DOMAIN out.categories :
                      out.category_amounts[i] = JNum(RefSum(
                          {r \in mine : JStr(r.category) = out.categories[i]}))
                /\ \A i \in DOMAIN out.months : out.months[i].t = "str"
                /\ {out.months[i].v : i \in DOMAIN out.months} = MonthPrefixes(mine)
                /\ \A i, j \in DOMAIN out.months :
                      i < j => TextLess(out.months[i].v, out.months[j].v)
                /\ \A i \in DOMAIN out.months :
                      out.monthly_amounts[i]
                         = JNum(RefSum(InMonth(mine, out.months[i].v)))
                /\ out.total_spent = JNum(RefSum(mine))
                /\ SeqSum(out.category_amounts) = RefSum(mine)
                /\ SeqSum(out.monthly_amounts) = RefSum(mine)
                /\ out.budget \in {b.amount : b \in {x \in budgets : x.user_id = u}}
                                     \cup {JNum(0)}]_vars

=============================================================================
